---- MODULE Spec2Model ----
(***************************************************************************)
(* Model of bank/bank.py: Bank, Account and StudentAccount.                *)
(*                                                                         *)
(* Objects live in a heap: `accounts` is the sequence of every Account     *)
(* object ever constructed (creation order), `bank_accounts[b]` is the     *)
(* Python list Bank.accounts of bank b (indices into the heap) and         *)
(* `interest_rate[b]` is Bank.interest_rate.  `call` records the last      *)
(* call made by the client: the operation and whether it raised            *)
(* AccountException.                                                       *)
(*                                                                         *)
(* Amounts, balances, limits and rates are drawn from Python ints, for     *)
(* which +, -, * and < are exact; a rate r multiplies a balance by 1 + r.  *)
(***************************************************************************)
EXTENDS Integers, Sequences, FiniteSets

\* ---- bounds of the model ----
MaxAccounts == 2
MaxBalance == 2
MaxLimit == 1
MaxRate == 1

BankIds == {"b1", "b2"}
Names == {"Richard", "Second"}
FixtureName == "Richard"
FixtureBank == "b1"
Classes == {"Account", "StudentAccount"}
Amounts == -MaxBalance..MaxBalance
Balances == -MaxBalance..MaxBalance
Limits == 0..MaxLimit
Rates == -MaxRate..MaxRate

VARIABLES accounts, bank_accounts, interest_rate, call

vars == <<accounts, bank_accounts, interest_rate, call>>

AccountIds == 1..Len(accounts)

\* ---- class Account ----

\* Account.__init__(name, bank); cls is the class that was instantiated
NewAccount(cls, name, bank) ==
    [cls |-> cls, name |-> name, _balance |-> 0, overdraft_limit |-> 0, bank |-> bank]

\* Account.balance (getter)
BalanceGet(self) == self._balance

\* Account.balance (setter): the outcome is the object after the call and
\* whether AccountException was raised
BalanceSetEager(self, balance) ==
    [obj |-> [self EXCEPT !._balance = balance],
     raised |-> balance < -self.overdraft_limit]

BalanceSetUnchecked(self, balance) ==
    [obj |-> [self EXCEPT !._balance = balance], raised |-> FALSE]

BalanceSetStrict(self, balance) ==
    IF balance <= -self.overdraft_limit
    THEN [obj |-> self, raised |-> TRUE]
    ELSE [obj |-> [self EXCEPT !._balance = balance], raised |-> FALSE]

BalanceSet(self, balance) ==
    IF balance < -self.overdraft_limit
    THEN [obj |-> self, raised |-> TRUE]
    ELSE [obj |-> [self EXCEPT !._balance = balance], raised |-> FALSE]

\* Account.available_funds
available_funds(self) == self.overdraft_limit + BalanceGet(self)

\* Account.make_deposit: self._balance += amount
DepositChecked(self, amount) == BalanceSet(self, self._balance + amount).obj

Deposit(self, amount) == [self EXCEPT !._balance = self._balance + amount]

\* Account.make_withdrawal: self.balance -= amount (getter, then setter)
WithdrawalNoOverdraft(self, amount) ==
    IF BalanceGet(self) - amount < 0
    THEN [obj |-> self, raised |-> TRUE]
    ELSE [obj |-> [self EXCEPT !._balance = BalanceGet(self) - amount], raised |-> FALSE]

Withdrawal(self, amount) == BalanceSet(self, BalanceGet(self) - amount)

\* Account.step: self._balance *= (1 + self.bank.interest_rate)
BaseStepChecked(self, rates) ==
    BalanceSet(self, self._balance * (1 + rates[self.bank])).obj

BaseStepFirstBank(self, rates) ==
    [self EXCEPT !._balance = self._balance * (1 + rates["b1"])]

BaseStep(self, rates) ==
    [self EXCEPT !._balance = self._balance * (1 + rates[self.bank])]

\* StudentAccount.step
StudentStepAlways(self, rates) == BaseStep(self, rates)

StudentStep(self, rates) ==
    IF BalanceGet(self) > 0 THEN BaseStep(self, rates) ELSE self

\* account.step(): dispatch on the class of the object
Step(self, rates) ==
    IF self.cls = "StudentAccount" THEN StudentStep(self, rates) ELSE BaseStep(self, rates)

\* ---- class Bank ----

\* Bank.open_account: the list Bank.accounts after the append
AppendFront(list, id) == <<id>> \o list

AppendAccount(list, id) == Append(list, id)

\* Bank.step: the heap after every account in the list has stepped, in order
RECURSIVE StepAll(_, _, _)
StepAll(heap, list, rates) ==
    IF list = <<>> THEN heap
    ELSE StepAll([heap EXCEPT ![Head(list)] = Step(heap[Head(list)], rates)],
                 Tail(list), rates)

InRange(heap) == \A i \in DOMAIN heap : heap[i]._balance \in Balances

Called(op, raised) == [op |-> op, raised |-> raised]

\* ---- initial state: Bank(interest_rate=r) for each bank, no accounts ----
Init ==
    /\ accounts = <<>>
    /\ bank_accounts = [b \in BankIds |-> <<>>]
    /\ interest_rate \in [BankIds -> Rates]
    /\ call = Called("Bank", FALSE)

\* ---- operations ----

\* bank.open_account(name)
OpenAccount(b, name) ==
    /\ Len(accounts) < MaxAccounts
    /\ accounts' = Append(accounts, NewAccount("Account", name, b))
    /\ bank_accounts' = [bank_accounts EXCEPT ![b] = AppendAccount(@, Len(accounts) + 1)]
    /\ call' = Called("open_account", FALSE)
    /\ UNCHANGED interest_rate

\* Account(FixtureName, bank=b) or StudentAccount(FixtureName, bank=b),
\* constructed directly as the test fixtures do
Construct(cls, b) ==
    /\ Len(accounts) < MaxAccounts
    /\ accounts' = Append(accounts, NewAccount(cls, FixtureName, b))
    /\ call' = Called("construct", FALSE)
    /\ UNCHANGED <<bank_accounts, interest_rate>>

\* account.balance = b
SetBalance(i, b) ==
    LET r == BalanceSet(accounts[i], b) IN
    /\ accounts' = [accounts EXCEPT ![i] = r.obj]
    /\ call' = Called("set_balance", r.raised)
    /\ UNCHANGED <<bank_accounts, interest_rate>>

\* account.make_deposit(a)
MakeDeposit(i, a) ==
    LET obj == Deposit(accounts[i], a) IN
    /\ obj._balance \in Balances
    /\ accounts' = [accounts EXCEPT ![i] = obj]
    /\ call' = Called("make_deposit", FALSE)
    /\ UNCHANGED <<bank_accounts, interest_rate>>

\* account.make_withdrawal(a)
MakeWithdrawal(i, a) ==
    LET r == Withdrawal(accounts[i], a) IN
    /\ r.obj._balance \in Balances
    /\ accounts' = [accounts EXCEPT ![i] = r.obj]
    /\ call' = Called("make_withdrawal", r.raised)
    /\ UNCHANGED <<bank_accounts, interest_rate>>

\* account.overdraft_limit = l
SetOverdraftLimit(i, l) ==
    /\ accounts' = [accounts EXCEPT ![i].overdraft_limit = l]
    /\ call' = Called("set_overdraft_limit", FALSE)
    /\ UNCHANGED <<bank_accounts, interest_rate>>

\* bank.interest_rate = r
SetInterestRate(b, r) ==
    /\ interest_rate' = [interest_rate EXCEPT ![b] = r]
    /\ call' = Called("set_interest_rate", FALSE)
    /\ UNCHANGED <<accounts, bank_accounts>>

\* account.step()
AccountStep(i) ==
    LET obj == Step(accounts[i], interest_rate) IN
    /\ obj._balance \in Balances
    /\ accounts' = [accounts EXCEPT ![i] = obj]
    /\ call' = Called("step", FALSE)
    /\ UNCHANGED <<bank_accounts, interest_rate>>

\* bank.step()
BankStep(b) ==
    LET heap == StepAll(accounts, bank_accounts[b], interest_rate) IN
    /\ InRange(heap)
    /\ accounts' = heap
    /\ call' = Called("bank_step", FALSE)
    /\ UNCHANGED <<bank_accounts, interest_rate>>

Next ==
    \/ \E b \in BankIds, name \in Names : OpenAccount(b, name)
    \/ \E cls \in Classes, b \in BankIds : Construct(cls, b)
    \/ \E i \in AccountIds, b \in Balances : SetBalance(i, b)
    \/ \E i \in AccountIds, a \in Amounts : MakeDeposit(i, a)
    \/ \E i \in AccountIds, a \in Amounts : MakeWithdrawal(i, a)
    \/ \E i \in AccountIds, l \in Limits : SetOverdraftLimit(i, l)
    \/ \E b \in BankIds, r \in Rates : SetInterestRate(b, r)
    \/ \E i \in AccountIds : AccountStep(i)
    \/ \E b \in BankIds : BankStep(b)

Spec == Init /\ [][Next]_vars

\* The client of the test fixtures: every call goes to the fixture bank or to
\* an account of it.
NextAccount ==
    \/ OpenAccount(FixtureBank, FixtureName)
    \/ \E cls \in Classes : Construct(cls, FixtureBank)
    \/ \E i \in AccountIds, b \in Balances : SetBalance(i, b)
    \/ \E i \in AccountIds, a \in Amounts : MakeDeposit(i, a)
    \/ \E i \in AccountIds, a \in Amounts : MakeWithdrawal(i, a)
    \/ \E i \in AccountIds, l \in Limits : SetOverdraftLimit(i, l)
    \/ \E r \in Rates : SetInterestRate(FixtureBank, r)
    \/ \E i \in AccountIds : AccountStep(i)
    \/ BankStep(FixtureBank)

SpecAccount == Init /\ [][NextAccount]_vars

\* ---- properties ----

Floor(self) == -self.overdraft_limit

Only(i) == Len(accounts) = 1 /\ i = 1

\* C1 (as claimed): in every reachable state every account has
\* balance >= -overdraft_limit.
C1_OverdraftInvariant ==
    \A i \in AccountIds : accounts[i]._balance >= Floor(accounts[i])

\* C1 (amended): immediately after a successful make_withdrawal or balance
\* assignment on an account, that account has balance >= -overdraft_limit.
C1_ValidatedMutationKeepsFloor ==
    [][/\ (call'.op = "set_balance" /\ ~call'.raised) =>
             \A i \in AccountIds : \A b \in Balances :
                 SetBalance(i, b) => accounts'[i]._balance >= Floor(accounts'[i])
       /\ (call'.op = "make_withdrawal" /\ ~call'.raised) =>
             \A i \in AccountIds : \A a \in Amounts :
                 MakeWithdrawal(i, a) => accounts'[i]._balance >= Floor(accounts'[i])]_vars

C1_Witness ==
    /\ call = Called("make_withdrawal", FALSE)
    /\ \E i \in AccountIds :
          /\ Only(i)
          /\ accounts[i].overdraft_limit > 0
          /\ accounts[i]._balance = Floor(accounts[i])

\* C2: a call that raises AccountException leaves every account (balance,
\* overdraft_limit, name, bank) and every bank (interest_rate, accounts)
\* exactly as before the call.
C2_FailureAtomicity ==
    [][call'.raised =>
          /\ call'.op \in {"make_withdrawal", "set_balance"}
          /\ accounts' = accounts
          /\ bank_accounts' = bank_accounts
          /\ interest_rate' = interest_rate]_vars

C2_Witness ==
    /\ call = Called("make_withdrawal", TRUE)
    /\ \E i \in AccountIds : Only(i) /\ accounts[i]._balance > 0

\* C3: account.balance = b succeeds exactly when b >= -overdraft_limit and
\* then balance = b, whatever the old balance was; otherwise it raises and
\* the balance is unchanged.  b = -overdraft_limit is accepted.
C3_ValidatedAssignment ==
    [][call'.op = "set_balance" => \A i \in AccountIds : \A b \in Balances :
          SetBalance(i, b) =>
              IF b >= -accounts[i].overdraft_limit
              THEN ~call'.raised /\ accounts'[i]._balance = b
              ELSE call'.raised /\ accounts'[i]._balance = accounts[i]._balance]_vars

C3_Witness ==
    /\ call = Called("set_balance", FALSE)
    /\ \E i \in AccountIds :
          /\ Only(i)
          /\ accounts[i].overdraft_limit > 0
          /\ accounts[i]._balance = Floor(accounts[i])

\* C4: make_withdrawal(a) succeeds exactly when a <= available_funds, and
\* then balance and available_funds both drop by a; it raises exactly when
\* balance - a < -overdraft_limit, leaving the account as it was.
C4_WithdrawalAgainstAvailableFunds ==
    [][call'.op = "make_withdrawal" => \A i \in AccountIds : \A a \in Amounts :
          MakeWithdrawal(i, a) =>
              /\ call'.raised <=> (accounts[i]._balance - a < Floor(accounts[i]))
              /\ IF a <= available_funds(accounts[i])
                 THEN /\ ~call'.raised
                      /\ accounts'[i]._balance = accounts[i]._balance - a
                      /\ available_funds(accounts'[i]) = available_funds(accounts[i]) - a
                 ELSE /\ call'.raised
                      /\ accounts'[i] = accounts[i]]_vars

C4_Witness ==
    /\ call = Called("make_withdrawal", FALSE)
    /\ \E i \in AccountIds :
          /\ Only(i)
          /\ accounts[i].overdraft_limit > 0
          /\ accounts[i]._balance < 0
          /\ available_funds(accounts[i]) = 0

\* C5: make_deposit(a) never raises, adds a to the balance without any
\* check, and changes nothing else.
C5_DepositUnconditional ==
    [][call'.op = "make_deposit" => \A i \in AccountIds : \A a \in Amounts :
          MakeDeposit(i, a) =>
              /\ ~call'.raised
              /\ accounts' = [accounts EXCEPT ![i]._balance = @ + a]
              /\ bank_accounts' = bank_accounts
              /\ interest_rate' = interest_rate]_vars

C5_Witness ==
    /\ call = Called("make_deposit", FALSE)
    /\ \E i \in AccountIds : Only(i) /\ accounts[i]._balance < Floor(accounts[i])

\* C6: step() of a base Account never raises and multiplies the balance by
\* 1 + its bank's interest_rate, whatever the sign of the balance and without
\* the overdraft check; overdraft_limit and everything else are unchanged.
C6_BaseAccountInterest ==
    [][call'.op = "step" => \A i \in AccountIds :
          (AccountStep(i) /\ accounts[i].cls = "Account") =>
              /\ ~call'.raised
              /\ accounts' = [accounts EXCEPT
                     ![i]._balance = @ * (1 + interest_rate[accounts[i].bank])]]_vars

C6_Witness ==
    /\ call = Called("step", FALSE)
    /\ \E i \in AccountIds :
          /\ Only(i)
          /\ accounts[i].cls = "Account"
          /\ accounts[i].overdraft_limit > 0
          /\ accounts[i]._balance < Floor(accounts[i])

\* C7: step() of a StudentAccount multiplies the balance by 1 + rate when the
\* balance is > 0 and leaves a zero or negative balance unchanged.
C7_StudentAccountInterest ==
    [][call'.op = "step" => \A i \in AccountIds :
          (AccountStep(i) /\ accounts[i].cls = "StudentAccount") =>
              accounts' = [accounts EXCEPT
                  ![i]._balance = IF @ > 0
                                  THEN @ * (1 + interest_rate[accounts[i].bank])
                                  ELSE @]]_vars

C7_Witness ==
    /\ call = Called("step", FALSE)
    /\ \E i \in AccountIds :
          /\ Only(i)
          /\ accounts[i].cls = "StudentAccount"
          /\ accounts[i]._balance < 0
          /\ interest_rate[accounts[i].bank] > 0

\* C8: Bank.step() of bank b applies step() once to every account whose
\* owning bank is b, registered through open_account or constructed directly
\* with bank=b, and changes no other account.
C8_BankStepReachesEveryOwnedAccount ==
    [][call'.op = "bank_step" => \A b \in BankIds :
          BankStep(b) =>
              \A i \in AccountIds :
                  accounts'[i] = IF accounts[i].bank = b
                                 THEN Step(accounts[i], interest_rate)
                                 ELSE accounts[i]]_vars

\* C9: open_account(name) never raises, creates an account with that name,
\* balance 0, overdraft_limit 0 and owner b, appends it last to b.accounts and
\* changes nothing else; no other operation changes any bank's accounts list.
C9_OpenAccountRegisters ==
    [][/\ call'.op = "open_account" => \A b \in BankIds : \A name \in Names :
             OpenAccount(b, name) =>
                /\ ~call'.raised
                /\ accounts' = Append(accounts,
                       [cls |-> "Account", name |-> name, _balance |-> 0,
                        overdraft_limit |-> 0, bank |-> b])
                /\ bank_accounts' =
                       [bank_accounts EXCEPT ![b] = @ \o <<Len(accounts) + 1>>]
                /\ interest_rate' = interest_rate
       /\ call'.op # "open_account" => bank_accounts' = bank_accounts]_vars

C9_Witness ==
    /\ call = Called("open_account", FALSE)
    /\ \E b \in BankIds :
          /\ bank_accounts[b] = <<1, 2>>
          /\ accounts[1].name = accounts[2].name
          /\ accounts[1]._balance # 0

\* C10: every step() that applies interest multiplies by 1 + the interest_rate
\* its own bank has at the moment of the call, and only an assignment to
\* interest_rate changes a rate.
C10_SharedReadOnlyRate ==
    [][/\ call'.op # "set_interest_rate" => interest_rate' = interest_rate
       /\ call'.op = "step" => \A i \in AccountIds :
             AccountStep(i) =>
                accounts'[i]._balance =
                    IF accounts[i].cls = "StudentAccount" /\ accounts[i]._balance <= 0
                    THEN accounts[i]._balance
                    ELSE accounts[i]._balance * (1 + interest_rate[accounts[i].bank])
       /\ call'.op = "bank_step" => \A b \in BankIds :
             BankStep(b) =>
                \A k \in DOMAIN bank_accounts[b] :
                    LET i == bank_accounts[b][k] IN
                    accounts'[i]._balance =
                        accounts[i]._balance * (1 + interest_rate[b])]_vars

C10_Witness ==
    /\ call = Called("step", FALSE)
    /\ \E i \in AccountIds :
          /\ Only(i)
          /\ accounts[i].bank = "b2"
          /\ accounts[i]._balance = MaxBalance
          /\ interest_rate["b2"] > 0
          /\ interest_rate["b1"] < 0
====
